---- MODULE Spec2Model ----
(***************************************************************************)
(* A model of old/ampd_obsolete.c: the batch driver main(), the engine     *)
(* ampd() and its stages linear_fit, linear_detrend, calc_lms,             *)
(* row_sum_lms, argmin_minind, col_stddev_lms and find_peaks.              *)
(*                                                                         *)
(* Numbers.  The C code computes in float/double.  The model keeps every   *)
(* quantity exact:                                                          *)
(*   - the overlap ratio is the rational overlap / OverlapDen;             *)
(*   - samples are integers; a detrended window is kept multiplied by its  *)
(*     length n, which preserves every comparison calc_lms makes;          *)
(*   - a scalogram cell is 0 or ALPHA + RAND_FACTOR * u with u the value   *)
(*     of rand() / RAND_MAX, here 0 .. RAND_MAX with RAND_MAX = 1;         *)
(*   - a sigma entry is NaN or the fraction num / den.                     *)
(* The header ampd.h that sets ALPHA, RAND_FACTOR, TOLERANCE, IND_THRESH,  *)
(* DATA_BUF_DEF and OVERLAP_DEF is not part of the sources at hand: the    *)
(* model gives them the values of the reference algorithm (alpha = 1,      *)
(* noise in [1, 2]) and draws ind_thresh from a range.                     *)
(*                                                                         *)
(* Reads outside a buffer (data[-1], data[n], peaks[-1]) and conversions   *)
(* of a non-finite double to int have no defined value: the value read is  *)
(* drawn from a set when the buffer is allocated.                          *)
(***************************************************************************)
EXTENDS Integers, Sequences, FiniteSets, TLC

(***************************************************************************)
(* Bounds of the model.                                                    *)
(***************************************************************************)
OverlapDen == 2      \* overlap ratios are multiples of 1 / OverlapDen
MinBuf == 2          \* shortest window length given with --length
MaxBuf == 3          \* longest window length given with --length
MaxDataLen == 4      \* most lines in the input file
MaxIndThresh == 1    \* IND_THRESH lies in 0 .. MaxIndThresh
RandWin == 6         \* window length of the randomness study
MaxRows == 3         \* longest gamma vector handed to argmin_minind alone
MaxGamma == 3        \* gamma entries handed to argmin_minind alone
MaxCols == 5         \* longest sigma vector handed to find_peaks alone
MaxLmsCols == 8      \* longest window handed to calc_lms alone

(***************************************************************************)
(* Program constants.                                                      *)
(***************************************************************************)
TESTING == 1
HARDTRESHOLD_PEAKS == 1
RAND_MAX == 1
ALPHA == 1
RAND_FACTOR == 1
TOLERANCE == 1
DATA_BUF_DEF == 4
OVERLAP_DEF == 0

NoOutput == "none"
NoCell == <<>>

\* the samples of the input, the fitted slopes and intercepts (in the
\* units of LinearDetrend), and the values an undefined read can give
SampleVals == {0, 1}
FitVals == {0, 1}
UndefInts == {0 - 99, 0, 99}
UndefFloats == {0 - 99, 99}
OverlapVals == (0 - 1)..(OverlapDen + 1)
BufVals == MinBuf..MaxBuf

(***************************************************************************)
(* C arithmetic.                                                           *)
(***************************************************************************)
\* (int)(x / d) for d > 0: the cast truncates toward zero
Trunc(x, d) == IF x >= 0 THEN x \div d ELSE 0 - ((0 - x) \div d)

\* ceil(x / d) for d # 0
CeilDiv(x, d) == IF d > 0 THEN 0 - ((0 - x) \div d) ELSE 0 - (x \div (0 - d))

\* round(x / d) for d > 0, halves away from zero (C's round)
Round(x, d) == IF x >= 0 THEN (2 * x + d) \div (2 * d)
               ELSE 0 - ((2 * (0 - x) + d) \div (2 * d))

Abs(x) == IF x >= 0 THEN x ELSE 0 - x

RECURSIVE SumTo(_, _)
\* f[0] + ... + f[m-1]
SumTo(f, m) == IF m <= 0 THEN 0 ELSE f[m - 1] + SumTo(f, m - 1)

(***************************************************************************)
(* main: configuration.                                                    *)
(***************************************************************************)
\* line 166: if(overlap > 1)
OverlapRejectedNever(q) == FALSE

OverlapRejected(q) == q > OverlapDen

\* line 202: n_ovlap = (int)((double)data_buf * overlap)
NOvlap(buf, q) == Trunc(buf * q, OverlapDen)

\* line 203: cycles = (int)(ceil(datalen / (double)(data_buf - n_ovlap))).
\* With a stride of 0 the quotient is inf or NaN and the cast is undefined.
CyclesSet(len, buf, novl) ==
    IF buf - novl = 0 THEN UndefInts ELSE {CeilDiv(len, buf - novl)}

\* line 267: (int)(n_peaks * (1.0 - overlap))
ContributionRounded(np, q) == Round(np * (OverlapDen - q), OverlapDen)

Contribution(np, q) == Trunc(np * (OverlapDen - q), OverlapDen)

\* lines 259, 330: l = (int)ceil(n/2) - 1, n/2 an integer division
LmsRows(len) == (len \div 2) - 1

(***************************************************************************)
(* fetch_data.                                                             *)
(***************************************************************************)
\* the input files: one sample per line
SeriesSet == UNION {[0..(len - 1) -> SampleVals] : len \in 0..MaxDataLen}

\* lines 588-600: lines ind .. ind + n of the file go to data[0 .. n]; an
\* entry the file has no line for keeps what malloc left there (g)
FetchData(s, slen, origin, len, g) ==
    [j \in 0..(len - 1) |-> IF origin + j < slen THEN s[origin + j] ELSE g[j]]

\* line 593 lets line ind + n through: it is stored at data[n]
FetchHi(s, slen, origin, len, ghi) ==
    IF origin + len < slen THEN s[origin + len] ELSE ghi

(***************************************************************************)
(* linear_fit and linear_detrend.                                          *)
(***************************************************************************)
\* linear_fit, lines 638-658: r is NaN exactly when the denominator is not
\* 0 (n >= 2) and either sqrt() met a negative sample (sumy2 is NaN) or
\* every sample is 0 (r = 0 / 0).
RIsNaN(d, len) ==
    /\ len >= 2
    /\ \/ \E j \in 0..(len - 1) : d[j] < 0
       \/ \A j \in 0..(len - 1) : d[j] = 0

\* linear_fit, lines 646-653: a = b = 0 when denom == 0 (n <= 1); else the
\* least-squares values, which involve sqrt and are drawn from FitVals.
FitSet(len) == IF len <= 1 THEN {0} ELSE FitVals

\* linear_detrend: data[i] -= a * i * ts / n + b, kept multiplied by n
\* (a in units of 1 / ts)
LinearDetrend(d, len, a, b) ==
    [j \in 0..(len - 1) |-> len * d[j] - (a * j + len * b)]

(***************************************************************************)
(* calc_lms.                                                               *)
(***************************************************************************)
\* data[j] as calc_lms reads it: j = -1 and j = n lie outside the buffer
DataAt(d, lo, hi, len, j) ==
    IF j < 0 THEN lo ELSE IF j >= len THEN hi ELSE d[j]

NoiseWithoutAlpha(u) == RAND_FACTOR * u

\* lines 708-709: rnd = (float)rand() / RAND_MAX * RAND_FACTOR, plus a
Noise(u) == RAND_FACTOR * u + ALPHA * RAND_MAX

\* lines 710-721: one cell of the scalogram
LmsCell(d, lo, hi, len, k, i, u) ==
    IF i < k THEN Noise(u)
    ELSE IF i > len - k + 1 THEN Noise(u)
    ELSE IF /\ DataAt(d, lo, hi, len, i - 1) > DataAt(d, lo, hi, len, i - k - 1)
            /\ DataAt(d, lo, hi, len, i - 1) > DataAt(d, lo, hi, len, i + k - 1)
         THEN 0
         ELSE Noise(u)

\* lines 710-718: the indices of data[] read for one cell; && does not
\* evaluate its right operand when the left one is false
LmsReads(d, lo, hi, len, k, i) ==
    IF i < k \/ i > len - k + 1 THEN {}
    ELSE IF DataAt(d, lo, hi, len, i - 1) > DataAt(d, lo, hi, len, i - k - 1)
         THEN {i - 1, i - k - 1, i + k - 1}
         ELSE {i - 1, i - k - 1}

\* the values rand() returns for the cells of an rows x len scalogram
Draws(rows, len) == [0..(rows - 1) -> [0..(len - 1) -> 0..RAND_MAX]]

CalcLms(d, lo, hi, len, rows, R) ==
    [k \in 0..(rows - 1) |->
        [i \in 0..(len - 1) |-> LmsCell(d, lo, hi, len, k, i, R[k][i])]]

(***************************************************************************)
(* row_sum_lms, argmin_minind, col_stddev_lms.                             *)
(***************************************************************************)
RowSumLms(m, len, rows) == [k \in 0..(rows - 1) |-> SumTo(m[k], len)]

\* line 562: if(data[i] < min)
ArgminTakesTies(x, min) == x <= min

ArgminTakes(x, min) == x < min

RECURSIVE ArgminLoop(_, _, _, _, _)
ArgminLoop(g, len, i, min, out) ==
    IF i >= len THEN out
    ELSE IF ArgminTakes(g[i], min) THEN ArgminLoop(g, len, i + 1, g[i], i)
         ELSE ArgminLoop(g, len, i + 1, min, out)

\* With n <= 0 the read of data[0] lies outside the buffer; the loop body
\* never runs, so the value read does not reach the result.
ArgminMinind(g, len) == IF len <= 0 THEN 0 ELSE ArgminLoop(g, len, 0, g[0], 0)

\* sigma[i] of col_stddev_lms for one column: the loops do not run for
\* lambda <= 0 (sigma stays 0.0); lambda = 1 divides 0 by l - 1.0 = 0 (NaN);
\* otherwise sum_k |m[k][i] - S / lambda| / (lambda - 1), S the column sum,
\* which is sum_k |lambda * m[k][i] - S| over lambda * (lambda - 1).
SigmaCol(m, i, lam) ==
    IF lam <= 0 THEN [nan |-> FALSE, num |-> 0, den |-> 1]
    ELSE IF lam = 1 THEN [nan |-> TRUE, num |-> 0, den |-> 1]
    ELSE LET col == [k \in 0..(lam - 1) |-> m[k][i]]
             S == SumTo(col, lam)
             dev == [k \in 0..(lam - 1) |-> Abs(lam * col[k] - S)]
         IN [nan |-> FALSE, num |-> SumTo(dev, lam), den |-> lam * (lam - 1)]

ColStddevLms(m, len, lam) == [i \in 0..(len - 1) |-> SigmaCol(m, i, lam)]

(***************************************************************************)
(* find_peaks.                                                             *)
(***************************************************************************)
\* line 778: sigma[i] < tol; a NaN compares false
SigmaBelowTol(s) == ~s.nan /\ s.num < TOLERANCE * RAND_MAX * s.den

\* line 781: peaks[j-1]; with j = 0 this is peaks[-1], outside the buffer
PrevPeak(pk, lo) == IF Len(pk) = 0 THEN lo ELSE pk[Len(pk)]

\* line 781: if(i - peaks[j-1] > ind_thresh)
PeakAcceptedAtThresh(i, prev, thr) == i - prev >= thr

PeakAccepted(i, prev, thr) == i - prev > thr

\* lines 778-788: one iteration of the scan
FindPeaksBody(sg, i, pk, lo, thr) ==
    IF SigmaBelowTol(sg[i]) /\ HARDTRESHOLD_PEAKS = 1
          /\ PeakAccepted(i, PrevPeak(pk, lo), thr)
    THEN Append(pk, i)
    ELSE pk

RECURSIVE FindPeaksFrom(_, _, _, _, _, _)
FindPeaksFrom(sg, len, i, pk, lo, thr) ==
    IF i >= len THEN pk
    ELSE FindPeaksFrom(sg, len, i + 1, FindPeaksBody(sg, i, pk, lo, thr), lo, thr)

FindPeaks(sg, len, lo, thr) == FindPeaksFrom(sg, len, 0, <<>>, lo, thr)

(***************************************************************************)
(* ampd: the stages after detrending, lines 337-343.                       *)
(***************************************************************************)
StagesFitOnly == <<"linear_fit">>

StagesAll == <<"linear_fit", "linear_detrend", "calc_lms", "row_sum_lms",
               "argmin_minind", "col_stddev_lms", "find_peaks">>

\* the peaks calc_lms .. find_peaks give for the detrended window dd when
\* rand() returns R
PipelinePeaks(dd, lo, hi, len, rows, R, plo, thr) ==
    LET m == CalcLms(dd, lo, hi, len, rows, R)
        lam == ArgminMinind(RowSumLms(m, len, rows), rows)
    IN FindPeaks(ColStddevLms(m, len, lam), len, plo, thr)

(***************************************************************************)
(* State.                                                                  *)
(***************************************************************************)
VARIABLES
    pc,            \* position in main
    series,        \* the samples of the input file
    overlap,       \* overlap ratio times OverlapDen
    data_buf_sec,  \* --length, in timesteps; 0 when not given
    data_buf, datalen, n_ovlap, cycles,
    i, ind, n,     \* batch index, its origin and its length
    sum_n_peaks,
    output,        \* the aggregate written to outfile and stdout
    calls,         \* the engine calls made so far: batch, origin, length
    rets,          \* the values those calls returned
    data,          \* the window, 0-indexed
    data_lo, data_hi,   \* what lies at data[-1] and data[n]
    peaks_lo,      \* what lies at peaks[-1]
    fit_a, fit_b,
    l, gamma, lambda, sigma, peaks, n_peaks,
    stages,        \* the stages the last engine call ran
    ind_thresh,    \* IND_THRESH
    fp_i,          \* find_peaks' column index
    lms_i, lms_k,  \* calc_lms' column and row index
    lms_cell,      \* the value calc_lms stored last
    lms_reads      \* the indices of data[] it read for that cell

cfgvars == <<series, overlap, data_buf_sec, data_buf, datalen, n_ovlap, cycles>>
loopvars == <<i, ind, n, sum_n_peaks, output, calls, rets>>
winvars == <<data, data_lo, data_hi, peaks_lo, l>>
engvars == <<fit_a, fit_b, gamma, lambda, sigma, peaks, n_peaks, stages, fp_i>>
lmsvars == <<lms_i, lms_k, lms_cell, lms_reads>>
vars == <<pc, cfgvars, loopvars, winvars, engvars, ind_thresh, lmsvars>>

\* no window allocated, no engine result
NoWindow ==
    /\ data = <<>> /\ data_lo = 0 /\ data_hi = 0 /\ peaks_lo = 0 /\ l = 0

NoEngine ==
    /\ fit_a = 0 /\ fit_b = 0 /\ gamma = <<>> /\ lambda = 0
    /\ sigma = <<>> /\ peaks = <<>> /\ n_peaks = 0 /\ stages = <<>> /\ fp_i = 0

\* calc_lms has stored no cell
NoLms ==
    /\ lms_i = 0 /\ lms_k = 0 /\ lms_cell = NoCell /\ lms_reads = {}

NoLoop ==
    /\ i = 0 /\ ind = 0 /\ sum_n_peaks = 0 /\ output = NoOutput
    /\ calls = <<>> /\ rets = <<>>

(***************************************************************************)
(* main, lines 79-303.                                                     *)
(***************************************************************************)
Init ==
    /\ pc = "getopt"
    /\ series \in SeriesSet
    /\ overlap = OVERLAP_DEF
    /\ data_buf_sec = 0
    /\ data_buf = DATA_BUF_DEF
    /\ datalen = 0 /\ n_ovlap = 0 /\ cycles = 0
    /\ n = 0
    /\ NoLoop /\ NoWindow /\ NoEngine /\ NoLms
    /\ ind_thresh \in 0..MaxIndThresh

\* case 'h': printf_help(); return 0
OptHelp ==
    /\ pc = "getopt"
    /\ pc' = "exit_success"
    /\ UNCHANGED lmsvars
    /\ UNCHANGED <<cfgvars, loopvars, winvars, engvars, ind_thresh>>

\* case 'p': overlap = atof(optarg); exit(EXIT_FAILURE) above 1
OptOverlap ==
    /\ pc = "getopt"
    /\ \E q \in OverlapVals :
          /\ overlap' = q
          /\ pc' = IF OverlapRejected(q) THEN "exit_failure" ELSE "getopt"
    /\ UNCHANGED lmsvars
    /\ UNCHANGED <<series, data_buf_sec, data_buf, datalen, n_ovlap, cycles>>
    /\ UNCHANGED <<loopvars, winvars, engvars, ind_thresh>>

\* case 'l': data_buf_sec = atof(optarg)
OptLength ==
    /\ pc = "getopt"
    /\ \E b \in BufVals : data_buf_sec' = b
    /\ UNCHANGED lmsvars
    /\ UNCHANGED <<pc, series, overlap, data_buf, datalen, n_ovlap, cycles>>
    /\ UNCHANGED <<loopvars, winvars, engvars, ind_thresh>>

\* getopt_long returns -1; lines 185-219 set up the run
Setup ==
    /\ pc = "getopt"
    /\ data_buf' = IF data_buf_sec # 0 THEN data_buf_sec ELSE data_buf
    /\ sum_n_peaks' = 0
    /\ datalen' = Cardinality(DOMAIN series)
    /\ n_ovlap' = NOvlap(data_buf', overlap)
    /\ cycles' \in CyclesSet(datalen', data_buf', n_ovlap')
    /\ pc' = "loop"
    /\ UNCHANGED lmsvars
    /\ UNCHANGED <<series, overlap, data_buf_sec, i, ind, n, output, calls, rets>>
    /\ UNCHANGED <<winvars, engvars, ind_thresh>>

\* line 220: the loop condition fails
LoopExit ==
    /\ pc = "loop"
    /\ ~(i < cycles)
    /\ pc' = "output"
    /\ UNCHANGED lmsvars
    /\ UNCHANGED <<cfgvars, loopvars, winvars, engvars, ind_thresh>>

\* lines 221-224: if(TESTING == 1) if(i>0) break
LoopBreakTesting ==
    /\ pc = "loop"
    /\ i < cycles
    /\ TESTING = 1 /\ i > 0
    /\ pc' = "output"
    /\ UNCHANGED lmsvars
    /\ UNCHANGED <<cfgvars, loopvars, winvars, engvars, ind_thresh>>

\* lines 239-241: the last batch breaks out of the loop
LoopBreakLast ==
    /\ pc = "loop"
    /\ i < cycles
    /\ ~(TESTING = 1 /\ i > 0)
    /\ i = cycles - 1
    /\ ind' = i * (data_buf - n_ovlap)
    /\ pc' = "output"
    /\ UNCHANGED lmsvars
    /\ UNCHANGED <<cfgvars, i, n, sum_n_peaks, output, calls, rets>>
    /\ UNCHANGED <<winvars, engvars, ind_thresh>>

\* lines 239-263: origin and length of the batch, fetch_data, and the
\* buffers of the engine
LoopFetch ==
    /\ pc = "loop"
    /\ i < cycles
    /\ ~(TESTING = 1 /\ i > 0)
    /\ i # cycles - 1
    /\ ind' = i * (data_buf - n_ovlap)
    /\ n' = data_buf
    /\ \E g \in [0..(n' - 1) -> UndefFloats], ghi \in UndefFloats :
          /\ data' = FetchData(series, datalen, ind', n', g)
          /\ data_hi' = FetchHi(series, datalen, ind', n', ghi)
    /\ data_lo' \in UndefFloats
    /\ peaks_lo' \in UndefInts
    /\ l' = LmsRows(n')
    /\ pc' = "ampd"
    /\ UNCHANGED lmsvars
    /\ UNCHANGED <<cfgvars, i, sum_n_peaks, output, calls, rets>>
    /\ UNCHANGED <<engvars, ind_thresh>>

\* line 265: n_peaks = ampd(data, n, lms, gamma, sigma, peaks, &a, &b).
\* ampd, lines 329-345: the fit; return -1 when r is NaN; else detrend,
\* calc_lms, row_sum_lms, argmin_minind, col_stddev_lms, find_peaks, each
\* on the result of the one before.
AmpdCall ==
    /\ pc = "ampd"
    /\ \E a \in FitSet(n), b \in FitSet(n), R \in Draws(l, n) :
          /\ fit_a' = a
          /\ fit_b' = b
          /\ IF RIsNaN(data, n)
             THEN /\ n_peaks' = 0 - 1
                  /\ stages' = StagesFitOnly
                  /\ UNCHANGED <<data, gamma, lambda, sigma, peaks>>
             ELSE \E dd \in {LinearDetrend(data, n, a, b)} :
                  \E m \in {CalcLms(dd, data_lo, data_hi, n, l, R)} :
                  \E g \in {RowSumLms(m, n, l)} :
                  \E lam \in {ArgminMinind(g, l)} :
                  \E sg \in {ColStddevLms(m, n, lam)} :
                  \E pk \in {FindPeaks(sg, n, peaks_lo, ind_thresh)} :
                     /\ data' = dd
                     /\ gamma' = g
                     /\ lambda' = lam
                     /\ sigma' = sg
                     /\ peaks' = pk
                     /\ n_peaks' = Len(pk)
                     /\ stages' = StagesAll
    /\ calls' = Append(calls, [w |-> i, ind |-> ind, n |-> n])
    /\ pc' = "accumulate"
    /\ UNCHANGED lmsvars
    /\ UNCHANGED <<cfgvars, i, ind, n, sum_n_peaks, output, rets>>
    /\ UNCHANGED <<data_lo, data_hi, peaks_lo, l, fp_i, ind_thresh>>

\* lines 267-294: add the batch to the total, free the buffers, i++
Accumulate ==
    /\ pc = "accumulate"
    /\ sum_n_peaks' = sum_n_peaks + Contribution(n_peaks, overlap)
    /\ rets' = Append(rets, n_peaks)
    /\ i' = i + 1
    /\ data' = <<>> /\ gamma' = <<>> /\ sigma' = <<>> /\ peaks' = <<>>
    /\ pc' = "loop"
    /\ UNCHANGED lmsvars
    /\ UNCHANGED <<cfgvars, ind, n, output, calls>>
    /\ UNCHANGED <<data_lo, data_hi, peaks_lo, l>>
    /\ UNCHANGED <<fit_a, fit_b, lambda, n_peaks, stages, fp_i, ind_thresh>>

\* lines 299-302: write the total and return
WriteOutput ==
    /\ pc = "output"
    /\ output' = sum_n_peaks
    /\ pc' = "done"
    /\ UNCHANGED lmsvars
    /\ UNCHANGED <<cfgvars, i, ind, n, sum_n_peaks, calls, rets>>
    /\ UNCHANGED <<winvars, engvars, ind_thresh>>

Next ==
    \/ OptHelp \/ OptOverlap \/ OptLength \/ Setup
    \/ LoopExit \/ LoopBreakTesting \/ LoopBreakLast \/ LoopFetch
    \/ AmpdCall \/ Accumulate \/ WriteOutput

Spec == Init /\ [][Next]_vars

(***************************************************************************)
(* The engine alone, on windows of RandWin samples: the state LoopFetch    *)
(* leaves, with every window content.                                      *)
(***************************************************************************)
InitAmpd ==
    /\ pc = "ampd"
    /\ series = <<>>
    /\ overlap = OVERLAP_DEF
    /\ data_buf_sec = 0
    /\ data_buf = RandWin
    /\ datalen = 0 /\ n_ovlap = 0 /\ cycles = 0
    /\ i = 0 /\ ind = 0 /\ n = RandWin /\ sum_n_peaks = 0 /\ output = NoOutput
    /\ calls = <<>> /\ rets = <<>>
    /\ data \in [0..(RandWin - 1) -> SampleVals]
    /\ data_lo = 99
    /\ data_hi = 99
    /\ peaks_lo = 0 - 99
    /\ l = LmsRows(RandWin)
    /\ NoEngine /\ NoLms
    /\ ind_thresh = 0

SpecAmpd == InitAmpd /\ [][AmpdCall]_vars

(***************************************************************************)
(* argmin_minind alone, on every gamma vector of up to MaxRows entries.    *)
(***************************************************************************)
\* main has not run: its variables hold their initial values
MainIdle ==
    /\ series = <<>>
    /\ overlap = OVERLAP_DEF
    /\ data_buf_sec = 0
    /\ data_buf = DATA_BUF_DEF
    /\ datalen = 0 /\ n_ovlap = 0 /\ cycles = 0
    /\ NoLoop

InitArgmin ==
    /\ pc = "argmin_minind"
    /\ MainIdle /\ NoLms
    /\ n = 0
    /\ data = <<>> /\ data_lo = 0 /\ data_hi = 0 /\ peaks_lo = 0
    /\ l \in 0..MaxRows
    /\ gamma \in [0..(l - 1) -> 0..MaxGamma]
    /\ fit_a = 0 /\ fit_b = 0 /\ lambda = 0
    /\ sigma = <<>> /\ peaks = <<>> /\ n_peaks = 0 /\ stages = <<>> /\ fp_i = 0
    /\ ind_thresh = 0

\* line 339: lambda = argmin_minind(gamma, l)
ArgminCall ==
    /\ pc = "argmin_minind"
    /\ lambda' = ArgminMinind(gamma, l)
    /\ pc' = "argmin_done"
    /\ UNCHANGED lmsvars
    /\ UNCHANGED <<cfgvars, loopvars, winvars, ind_thresh>>
    /\ UNCHANGED <<fit_a, fit_b, gamma, sigma, peaks, n_peaks, stages, fp_i>>

SpecArgmin == InitArgmin /\ [][ArgminCall]_vars

(***************************************************************************)
(* find_peaks alone, one column of the scan per step, on every sigma       *)
(* vector of up to MaxCols entries that are 0, the tolerance, or NaN.      *)
(***************************************************************************)
SigmaVals ==
    { [nan |-> FALSE, num |-> 0, den |-> 1],
      [nan |-> FALSE, num |-> TOLERANCE * RAND_MAX, den |-> 1],
      [nan |-> TRUE, num |-> 0, den |-> 1] }

\* lines 773-776: j = 0, *n_peaks = 0
InitPeaks ==
    /\ pc = "find_peaks"
    /\ MainIdle /\ NoLms
    /\ n \in 1..MaxCols
    /\ data = <<>> /\ data_lo = 0 /\ data_hi = 0 /\ l = 0
    /\ peaks_lo \in UndefInts
    /\ sigma \in [0..(n - 1) -> SigmaVals]
    /\ fit_a = 0 /\ fit_b = 0 /\ gamma = <<>> /\ lambda = 0
    /\ peaks = <<>> /\ n_peaks = 0 /\ stages = <<>> /\ fp_i = 0
    /\ ind_thresh \in 0..MaxIndThresh

\* lines 777-790: one iteration of for(i=0; i<n; i++)
FindPeaksStep ==
    /\ pc = "find_peaks"
    /\ fp_i < n
    /\ peaks' = FindPeaksBody(sigma, fp_i, peaks, peaks_lo, ind_thresh)
    /\ n_peaks' = Len(peaks')
    /\ fp_i' = fp_i + 1
    /\ UNCHANGED lmsvars
    /\ UNCHANGED <<pc, cfgvars, loopvars, winvars, ind_thresh>>
    /\ UNCHANGED <<fit_a, fit_b, gamma, lambda, sigma, stages>>

\* line 777: the loop condition fails; find_peaks returns
FindPeaksReturn ==
    /\ pc = "find_peaks"
    /\ ~(fp_i < n)
    /\ pc' = "find_peaks_done"
    /\ UNCHANGED lmsvars
    /\ UNCHANGED <<cfgvars, loopvars, winvars, engvars, ind_thresh>>

SpecPeaks == InitPeaks /\ [][FindPeaksStep \/ FindPeaksReturn]_vars

(***************************************************************************)
(* calc_lms alone, one cell per step, on every window of up to MaxLmsCols  *)
(* samples and with every value at data[-1] and data[n].  Of the matrix    *)
(* the state keeps the cell stored last: calc_lms never reads a cell back. *)
(***************************************************************************)
\* lines 258-260 and 704-706: n = lms->cols, l = lms->rows, i = 0
InitLms ==
    /\ pc = "calc_lms"
    /\ MainIdle
    /\ n \in 0..MaxLmsCols
    /\ data \in [0..(n - 1) -> SampleVals]
    /\ data_lo \in UndefFloats
    /\ data_hi \in UndefFloats
    /\ peaks_lo = 0
    /\ l = LmsRows(n)
    /\ NoEngine
    /\ ind_thresh = 0
    /\ NoLms

\* lines 707-721: one iteration of for(k=0; k<l; k++)
CalcLmsCell ==
    /\ pc = "calc_lms"
    /\ lms_i < n
    /\ lms_k < l
    /\ \E u \in 0..RAND_MAX :
           lms_cell' = <<LmsCell(data, data_lo, data_hi, n, lms_k, lms_i, u)>>
    /\ lms_reads' = LmsReads(data, data_lo, data_hi, n, lms_k, lms_i)
    /\ lms_k' = lms_k + 1
    /\ UNCHANGED <<pc, cfgvars, loopvars, winvars, engvars, ind_thresh, lms_i>>

\* lines 706-707: the inner loop is over; i++, k = 0
CalcLmsNextCol ==
    /\ pc = "calc_lms"
    /\ lms_i < n
    /\ ~(lms_k < l)
    /\ lms_i' = lms_i + 1
    /\ lms_k' = 0
    /\ lms_cell' = NoCell
    /\ lms_reads' = {}
    /\ UNCHANGED <<pc, cfgvars, loopvars, winvars, engvars, ind_thresh>>

\* lines 706 and 724: the outer loop is over; return
CalcLmsReturn ==
    /\ pc = "calc_lms"
    /\ ~(lms_i < n)
    /\ pc' = "calc_lms_done"
    /\ UNCHANGED <<cfgvars, loopvars, winvars, engvars, ind_thresh, lmsvars>>

SpecLms == InitLms /\ [][CalcLmsCell \/ CalcLmsNextCol \/ CalcLmsReturn]_vars

(***************************************************************************)
(* Properties.                                                             *)
(***************************************************************************)
\* the columns find_peaks has scanned so far that were candidates
Candidates == {c \in 0..(fp_i - 1) : SigmaBelowTol(sigma[c])}

PeakIndices == {peaks[j] : j \in 1..Len(peaks)}

\* C1: at every point of find_peaks' scan the accepted peaks are strictly
\* increasing and every two consecutive ones differ by more than ind_thresh.
PeaksIncreasingAndSpaced ==
    /\ n_peaks = Len(peaks)
    /\ \A j \in 1..(Len(peaks) - 1) :
          /\ peaks[j + 1] > peaks[j]
          /\ peaks[j + 1] - peaks[j] > ind_thresh

\* a finished scan that accepted two peaks and, ind_thresh being positive,
\* dropped a candidate that came too soon after an accepted peak
PeaksSpacedWitness ==
    /\ pc = "find_peaks_done"
    /\ Len(peaks) >= 2
    /\ ind_thresh >= 1
    /\ \E c \in Candidates : c \notin PeakIndices /\ c > peaks[1]

ZeroDraws(rows, len) == [k \in 0..(rows - 1) |-> [c \in 0..(len - 1) |-> 0]]

\* C3: the peaks a window yields do not depend on the values rand() gave:
\* they are the peaks the same detrended window yields when every draw is 0.
PeaksIndependentOfDraws ==
    (pc = "accumulate" /\ n_peaks >= 0) =>
        peaks = PipelinePeaks(data, data_lo, data_hi, n, l, ZeroDraws(l, n),
                              peaks_lo, ind_thresh)

RECURSIVE SumSucceeded(_, _)
\* what the first m calls contributed, the failed ones (-1) left out
SumSucceeded(rs, m) ==
    IF m = 0 THEN 0
    ELSE SumSucceeded(rs, m - 1)
         + (IF rs[m] >= 0 THEN Trunc(rs[m] * (OverlapDen - overlap), OverlapDen) ELSE 0)

\* C4: between batches and at the end the total is the sum of what the
\* windows that succeeded contributed: a failed window adds nothing.
FailedWindowAddsNothing ==
    pc \in {"loop", "output", "done"} => sum_n_peaks = SumSucceeded(rets, Len(rets))

\* C5: with a stride of at least 1 a finished run has called the engine
\* once per window w = 0 .. numWindows-1, in this order, at origin w * stride.
EveryWindowProcessed ==
    (pc = "done" /\ data_buf - n_ovlap >= 1) =>
        /\ Len(calls) = CeilDiv(datalen, data_buf - n_ovlap)
        /\ \A k \in 1..Len(calls) :
              /\ calls[k].w = k - 1
              /\ calls[k].ind = (k - 1) * (data_buf - n_ovlap)

RECURSIVE SumRounded(_, _)
SumRounded(rs, m) ==
    IF m = 0 THEN 0
    ELSE SumRounded(rs, m - 1) + Round(rs[m] * (OverlapDen - overlap), OverlapDen)

RECURSIVE SumTruncated(_, _)
SumTruncated(rs, m) ==
    IF m = 0 THEN 0
    ELSE SumTruncated(rs, m - 1) + Trunc(rs[m] * (OverlapDen - overlap), OverlapDen)

\* C6 as stated: the aggregate written is the sum over the processed
\* windows of peakCount * (1 - overlapRatio) rounded to the nearest integer.
AggregateIsSumOfRounded ==
    pc = "done" => output = SumRounded(rets, Len(rets))

\* C6 as amended: the aggregate written is the sum over the windows the
\* engine was called on of its return value times (1 - overlapRatio),
\* each term truncated toward zero.
AggregateIsSumOfTruncated ==
    pc = "done" => output = SumTruncated(rets, Len(rets))

\* a finished run with a window whose term truncates and rounds differently
AggregateWitness ==
    /\ pc = "done"
    /\ Len(rets) >= 1
    /\ rets[1] >= 1
    /\ Trunc(rets[1] * (OverlapDen - overlap), OverlapDen)
          # Round(rets[1] * (OverlapDen - overlap), OverlapDen)

\* C7: a run whose overlap ratio exceeds 1 has exited with an error; it has
\* fetched no window, called the engine on none and written no aggregate.
OverlapAboveOneRejected ==
    overlap > OverlapDen =>
        /\ pc = "exit_failure"
        /\ data = <<>>
        /\ calls = <<>> /\ rets = <<>>
        /\ output = NoOutput

OverlapAboveOneWitness == overlap > OverlapDen /\ pc = "exit_failure"

\* C8: at the batch loop the overlap ratio lies in [0, 1] and n_ovlap is
\* below data_buf, so the stride is at least 1.
StrideIsPositive ==
    pc = "loop" =>
        /\ 0 <= overlap /\ overlap <= OverlapDen
        /\ n_ovlap < data_buf
        /\ data_buf - n_ovlap >= 1

\* C9: a window of fewer than 4 samples is rejected: no scalogram is built,
\* no lambda is selected, and it adds nothing to the total.
ShortWindowRejected ==
    (pc = "accumulate" /\ n < 4) =>
        /\ \A k \in 1..Len(stages) : stages[k] \notin {"calc_lms", "argmin_minind"}
        /\ Contribution(n_peaks, overlap) = 0

\* C10: the first column with sigma below the tolerance is accepted: once
\* the scan has passed it, it is the first peak.
FirstCandidateAccepted ==
    \A c \in Candidates :
        (\A b \in Candidates : c <= b) => (Len(peaks) >= 1 /\ peaks[1] = c)

\* the row of the cell calc_lms stored last (its column is lms_i)
LastRow == lms_k - 1

\* the value calc_lms finds at data[j], inside the window or next to it
Sample(j) == DataAt(data, data_lo, data_hi, n, j)

ReadsInsideWindow ==
    \A j \in lms_reads : 0 <= j /\ j <= n - 1

\* C12: an engine call runs its stages in the order fit, detrend, scalogram,
\* row sums, lambda selection, dispersion, peak extraction; when the fit
\* fails (n <= 1 makes its denominator 0; r is NaN) or the selected lambda
\* is <= 1 no later stage runs and the call returns an error, not a count.
StagesShortCircuit ==
    pc = "accumulate" =>
        /\ \E m \in 1..Len(StagesAll) : stages = SubSeq(StagesAll, 1, m)
        /\ (n <= 1 \/ stages = StagesFitOnly) =>
              (stages = StagesFitOnly /\ n_peaks < 0)
        /\ (\E m \in 1..Len(stages) : stages[m] = "argmin_minind") /\ lambda <= 1 =>
              /\ \A m \in 1..Len(stages) :
                    stages[m] \notin {"col_stddev_lms", "find_peaks"}
              /\ n_peaks < 0

\* C14: with an overlap ratio in [0, 1) every window handed to the engine
\* has at least one sample and ends inside the series.
WindowsInsideSeries ==
    (0 <= overlap /\ overlap < OverlapDen) =>
        \A c \in 1..Len(calls) :
            /\ calls[c].n >= 1
            /\ calls[c].ind + calls[c].n <= datalen

====
